---- MODULE Spec2Model ----
(***************************************************************************)
(* Model of the ministrhash procedural macros (src/src/lib.rs):            *)
(* str_hash_default! and str_hash_fnv1a! take a token stream, expect one   *)
(* quoted string literal (possibly nested in delimiter groups), and        *)
(* return one unsuffixed integer literal holding the hash of the literal's *)
(* text between the quotes.                                                *)
(*                                                                         *)
(* Machine words are sequences of 16-bit limbs, least significant limb     *)
(* first: a u32 is <<lo, hi>>, a u64 has four limbs.  All arithmetic is    *)
(* done limb by limb so that no intermediate value leaves 31 bits.         *)
(***************************************************************************)
EXTENDS Integers, Sequences, FiniteSets, TLC

\* ------------------------------------------------------------------------
\* Bounds of the model.
\* ------------------------------------------------------------------------
\* longest string (in characters) handed directly to the two hash functions
MaxLen == 4
\* largest number of tokens (groups included) in an input token stream
MaxTokens == 4

\* ------------------------------------------------------------------------
\* Words.
\* ------------------------------------------------------------------------
LimbBits == 16
Limb == 65536

RECURSIVE Pow2(_)
Pow2(n) == IF n = 0 THEN 1 ELSE 2 * Pow2(n - 1)

\* a ^ b on two numbers of n bits
RECURSIVE XorBits(_, _, _)
XorBits(a, b, n) ==
    IF n = 0 THEN 0
    ELSE ((a + b) % 2) + 2 * XorBits(a \div 2, b \div 2, n - 1)

\* x ^ y on two words of the same width
XorW(x, y) == [i \in 1..Len(x) |-> XorBits(x[i], y[i], LimbBits)]

\* carry into limb i of x + y
RECURSIVE CarryIn(_, _, _)
CarryIn(x, y, i) ==
    IF i = 1 THEN 0 ELSE (x[i - 1] + y[i - 1] + CarryIn(x, y, i - 1)) \div Limb

\* x.wrapping_add(y)
wrapping_add(x, y) ==
    [i \in 1..Len(x) |-> (x[i] + y[i] + CarryIn(x, y, i)) % Limb]

\* carry into limb i of x * k, for 0 <= k < 2^15
RECURSIVE MulCarry(_, _, _)
MulCarry(x, k, i) ==
    IF i = 1 THEN 0 ELSE ((x[i - 1] * k) + MulCarry(x, k, i - 1)) \div Limb

\* x * k truncated to the width of x, for 0 <= k < 2^15
MulSmall(x, k) == [i \in 1..Len(x) |-> ((x[i] * k) + MulCarry(x, k, i)) % Limb]

\* x << (16 * n) truncated to the width of x
ShlLimbs(x, n) == [i \in 1..Len(x) |-> IF i > n THEN x[i - n] ELSE 0]

\* partial sum of x * y[j] << 16(j-1), j = 1..n
RECURSIVE MulAcc(_, _, _)
MulAcc(x, y, n) ==
    IF n = 0 THEN [i \in 1..Len(x) |-> 0]
    ELSE wrapping_add(MulAcc(x, y, n - 1), ShlLimbs(MulSmall(x, y[n]), n - 1))

\* x.wrapping_mul(y); every limb of y is below 2^15
wrapping_mul(x, y) == MulAcc(x, y, Len(y))

\* x.rotate_left(n) on a word of Len(x) limbs
rotate_left(x, n) ==
    LET w == Len(x)
        k == n \div LimbBits
        s == n % LimbBits
        at(j) == x[((j - 1) % w) + 1]
    IN  [i \in 1..w |->
            ((at(i - k) * Pow2(s)) % Limb) + (at(i - k - 1) \div Pow2(LimbBits - s))]

\* `byte as u32`, `byte as u64`: zero extension to w limbs
ZeroExtend(b, w) == [i \in 1..w |-> IF i = 1 THEN b ELSE 0]

\* ------------------------------------------------------------------------
\* string_hash_fnv1a (lib.rs 35-46)
\* ------------------------------------------------------------------------
\* 0x0100_0193 with a digit dropped: 0x0100_0093
FNV1A_PRIME_Short == <<147, 256>>

\* 0x0100_0193
FNV1A_PRIME == <<403, 256>>
\* 0x811C_9DC5
FNV1A_SEED == <<40389, 33052>>

\* FNV-1 instead of FNV-1a: multiplication before the xor
FnvStepMulFirst(hash, byte) ==
    XorW(wrapping_mul(hash, FNV1A_PRIME), ZeroExtend(byte, 2))

\* one iteration of the loop body, line 42
FnvStep(hash, byte) == wrapping_mul(XorW(hash, ZeroExtend(byte, 2)), FNV1A_PRIME)

\* the loop over string.as_bytes(): hash after the first n bytes
RECURSIVE FnvLoop(_, _)
FnvLoop(bytes, n) ==
    IF n = 0 THEN FNV1A_SEED ELSE FnvStep(FnvLoop(bytes, n - 1), bytes[n])

string_hash_fnv1a(string) == FnvLoop(string, Len(string))

\* ------------------------------------------------------------------------
\* string_hash_default (lib.rs 28-32): DefaultHasher::new() is SipHash-1-3
\* with the keys (0, 0); str::hash writes the bytes of the string and then
\* the byte 0xFF; finish() returns the 64-bit digest.
\* ------------------------------------------------------------------------
\* DefaultHasher::new(): k0 = 0, k1 = 0
SipKey0 == <<0, 0, 0, 0>>
SipKey1 == <<0, 0, 0, 0>>

\* 0x736f6d6570736575, 0x646f72616e646f6d, 0x6c7967656e657261, 0x7465646279746573
SipInit0 == <<25973, 28787, 28005, 29551>>
SipInit1 == <<28525, 28260, 29281, 25711>>
SipInit2 == <<29281, 28261, 26469, 27769>>
SipInit3 == <<25971, 31092, 25698, 29797>>

\* the hasher after new(): the four state words, the unprocessed tail bytes
\* and the number of bytes written so far
DefaultHasher_new ==
    [v0 |-> XorW(SipKey0, SipInit0), v1 |-> XorW(SipKey1, SipInit1),
     v2 |-> XorW(SipKey0, SipInit2), v3 |-> XorW(SipKey1, SipInit3),
     tail |-> <<>>, length |-> 0]

\* one SipRound on the four state words
SipRound(h) ==
    LET a0 == wrapping_add(h.v0, h.v1)
        a1 == XorW(rotate_left(h.v1, 13), a0)
        b0 == rotate_left(a0, 32)
        a2 == wrapping_add(h.v2, h.v3)
        a3 == XorW(rotate_left(h.v3, 16), a2)
        c0 == wrapping_add(b0, a3)
        c3 == XorW(rotate_left(a3, 21), c0)
        c2 == wrapping_add(a2, a1)
        c1 == XorW(rotate_left(a1, 17), c2)
        d2 == rotate_left(c2, 32)
    IN  [h EXCEPT !.v0 = c0, !.v1 = c1, !.v2 = d2, !.v3 = c3]

\* n SipRounds
RECURSIVE SipRounds(_, _)
SipRounds(h, n) == IF n = 0 THEN h ELSE SipRound(SipRounds(h, n - 1))

\* Sip13Rounds: one round per message word, three at the end
SipCRounds == 1
SipDRounds == 3

\* little-endian load of at most 8 bytes into a 64-bit word
LoadLE(bytes) ==
    LET at(j) == IF j <= Len(bytes) THEN bytes[j] ELSE 0
    IN  [i \in 1..4 |-> at(2 * i - 1) + 256 * at(2 * i)]

\* v3 ^= m; c_rounds; v0 ^= m
SipCompress(h, m) ==
    LET r == SipRounds([h EXCEPT !.v3 = XorW(h.v3, m)], SipCRounds)
    IN  [r EXCEPT !.v0 = XorW(r.v0, m)]

\* Hasher::write of one byte: buffered until 8 bytes make a word
SipWriteByte(h, b) ==
    LET t == Append(h.tail, b)
        g == [h EXCEPT !.length = (h.length + 1) % 256]
    IN  IF Len(t) = 8
        THEN [SipCompress(g, LoadLE(t)) EXCEPT !.tail = <<>>]
        ELSE [g EXCEPT !.tail = t]

\* Hasher::write: the first n bytes of the slice
RECURSIVE SipWrite(_, _, _)
SipWrite(h, bytes, n) ==
    IF n = 0 THEN h ELSE SipWriteByte(SipWrite(h, bytes, n - 1), bytes[n])

\* Hasher::finish: the last word holds the tail and, in its top byte, the
\* length mod 256
SipFinish(h) ==
    LET t == LoadLE(h.tail)
        b == [t EXCEPT ![4] = t[4] + 256 * h.length]
        r == SipCompress(h, b)
        f == SipRounds([r EXCEPT !.v2 = XorW(r.v2, ZeroExtend(255, 4))], SipDRounds)
    IN  XorW(XorW(f.v0, f.v1), XorW(f.v2, f.v3))

\* str::hash: the bytes, then 0xFF
StrHash(h, string) == SipWriteByte(SipWrite(h, string, Len(string)), 255)

string_hash_default(string) == SipFinish(StrHash(DefaultHasher_new, string))

\* ------------------------------------------------------------------------
\* Tokens (proc_macro::TokenTree) and their text.
\* ------------------------------------------------------------------------
\* '"'
Quote == 34
\* '\''
Apostrophe == 39
\* '0'
Digit0 == 48

\* proc_macro::Delimiter
Delimiters == {"Parenthesis", "Brace", "Bracket", "None"}

\* '#'
Pound == 35

\* TokenTree::Literal of a raw kind: StrRaw(n), ByteStrRaw(n), CStrRaw(n)
\* with n pounds on each side
RawLiteral(kind, n, symbol, suffix) ==
    [tt |-> "Literal", kind |-> kind, hashes |-> n, symbol |-> symbol,
     suffix |-> suffix]

\* TokenTree::Literal: kind, the text between the delimiters as written in
\* the source (escapes are not resolved), and the suffix (<<>> for none)
Literal(kind, symbol, suffix) == RawLiteral(kind, 0, symbol, suffix)
\* TokenTree::Group
Group(delimiter, stream) ==
    [tt |-> "Group", delimiter |-> delimiter, stream |-> stream]
\* TokenTree::Ident
Ident(sym) == [tt |-> "Ident", sym |-> sym]
\* TokenTree::Punct
Punct(ch) == [tt |-> "Punct", ch |-> ch]

\* n pounds
Hashes(n) == [i \in 1..n |-> Pound]

\* Literal::to_string(): the literal as written in the source: the prefix
\* of its kind (b, r, br, c, cr), the pounds of a raw literal, the symbol
\* between its quotes, and the suffix
to_string(lit) ==
    LET quoted(prefix, q) == prefix \o <<q>> \o lit.symbol \o <<q>>
        raw(prefix) == prefix \o Hashes(lit.hashes) \o <<Quote>> \o lit.symbol
                              \o <<Quote>> \o Hashes(lit.hashes)
    IN  (CASE lit.kind = "Byte" -> quoted(<<98>>, Apostrophe)
           [] lit.kind = "Char" -> quoted(<<>>, Apostrophe)
           [] lit.kind = "Str" -> quoted(<<>>, Quote)
           [] lit.kind = "StrRaw" -> raw(<<114>>)
           [] lit.kind = "ByteStr" -> quoted(<<98>>, Quote)
           [] lit.kind = "ByteStrRaw" -> raw(<<98, 114>>)
           [] lit.kind = "CStr" -> quoted(<<99>>, Quote)
           [] lit.kind = "CStrRaw" -> raw(<<99, 114>>)
           [] lit.kind \in {"Integer", "Float", "ErrWithGuar"} -> lit.symbol)
        \o lit.suffix

\* x == 0
IsZero(x) == \A i \in 1..Len(x) : x[i] = 0

\* remainder of (x >> 16(i-1)) / 10
RECURSIVE Rem10(_, _)
Rem10(x, i) ==
    IF i > Len(x) THEN 0 ELSE ((Rem10(x, i + 1) * Limb) + x[i]) % 10

\* x / 10
Div10(x) == [i \in 1..Len(x) |-> ((Rem10(x, i + 1) * Limb) + x[i]) \div 10]

\* the decimal digits of x, most significant first (none for 0)
RECURSIVE Digits(_)
Digits(x) ==
    IF IsZero(x) THEN <<>> ELSE Append(Digits(Div10(x)), Digit0 + Rem10(x, 1))

\* u32::to_string / u64::to_string
int_to_string(x) == IF IsZero(x) THEN <<Digit0>> ELSE Digits(x)

\* Literal::u32_suffixed / Literal::u64_suffixed instead
to_literal_suffixed(x) ==
    Literal("Integer", int_to_string(x),
            IF Len(x) = 2 THEN <<117, 51, 50>> ELSE <<117, 54, 52>>)

\* ToLiteral::to_literal: Literal::u32_unsuffixed / Literal::u64_unsuffixed
to_literal(x) == Literal("Integer", int_to_string(x), <<>>)

\* the function pointer `hash` of str_hash_impl
Hash(hasher, string) ==
    IF hasher = "fnv1a" THEN string_hash_fnv1a(string)
    ELSE string_hash_default(string)

\* ------------------------------------------------------------------------
\* Inputs.
\* ------------------------------------------------------------------------
\* characters of the strings, as UTF-8: a, e-acute, and the escape \"
Chars == {<<97>>, <<195, 169>>, <<92, Quote>>}

\* the strings of at most n characters
RECURSIVE Strings(_)
Strings(n) ==
    IF n = 0 THEN {<<>>}
    ELSE Strings(n - 1) \cup {s \o c : s \in Strings(n - 1), c \in Chars}

\* the longest string a panic of str indexing displays whole
MAX_DISPLAY_LENGTH == 256

\* a string too long to be displayed whole: aa...a
LongString == [i \in 1..MAX_DISPLAY_LENGTH |-> 97]

\* literal tokens: "", "a", "e-acute", "\"", "ab", "a"x, "a"e-acute and
\* "aa...a"e-acute (suffixed strings), b"a", 'a', 1, r"a", r#"a"#, c"a", b'a'
Literals ==
    {Literal("Str", s, <<>>) : s \in Strings(1) \cup {<<97, 98>>}}
    \cup {Literal("Str", <<97>>, <<120>>), Literal("Str", <<97>>, <<195, 169>>),
          Literal("Str", LongString, <<195, 169>>),
          Literal("ByteStr", <<97>>, <<>>), Literal("Char", <<97>>, <<>>),
          Literal("Integer", <<49>>, <<>>),
          RawLiteral("StrRaw", 0, <<97>>, <<>>), RawLiteral("StrRaw", 1, <<97>>, <<>>),
          Literal("CStr", <<97>>, <<>>), Literal("Byte", <<97>>, <<>>)}

\* tokens without children: the literals, the identifier foo, the punct ','
Leaves == Literals \cup {Ident(<<102, 111, 111>>), Punct(44)}

\* tokens that follow the first token of a stream
RestTokens == {Literal("Str", <<97>>, <<>>), Ident(<<102, 111, 111>>)}

\* number of tokens of a stream, the tokens inside groups included
RECURSIVE TokenCount(_)
TokenCount(stream) ==
    IF stream = <<>> THEN 0
    ELSE (IF Head(stream).tt = "Group" THEN 1 + TokenCount(Head(stream).stream) ELSE 1)
         + TokenCount(Tail(stream))

\* sequences of at most n tokens of RestTokens
RECURSIVE Rests(_)
Rests(n) ==
    IF n = 0 THEN {<<>>}
    ELSE Rests(n - 1) \cup {Append(r, t) : r \in Rests(n - 1), t \in RestTokens}

\* tokens without children found inside a group: the literals "a" and "",
\* the identifier foo
InnerLeaves ==
    {Literal("Str", <<97>>, <<>>), Literal("Str", <<>>, <<>>), Ident(<<102, 111, 111>>)}

\* delimiters of a group found inside a group
InnerDelimiters == {"Parenthesis", "None"}

\* token streams of at most n tokens, of the macro (top) or of a group: the
\* first token is a leaf or a group around a stream, the others are from
\* RestTokens
RECURSIVE StreamsOf(_, _)
StreamsOf(n, top) ==
    IF n = 0 THEN {<<>>}
    ELSE LET firsts ==
                 (IF top THEN Leaves ELSE InnerLeaves) \cup
                 {Group(d, s) : d \in (IF top THEN Delimiters ELSE InnerDelimiters),
                                s \in StreamsOf(n - 1, FALSE)}
         IN  {<<>>} \cup
             UNION {{<<t>> \o r : r \in Rests(n - TokenCount(<<t>>))} : t \in firsts}

\* the token streams of at most n tokens handed to a macro
Streams(n) == StreamsOf(n, TRUE)

\* ------------------------------------------------------------------------
\* State.
\* ------------------------------------------------------------------------
VARIABLES
    item,      \* the token stream handed to the macro by the current invocation
    hasher,    \* "default" or "fnv1a": the entry point invoked ("none" before)
    stack,     \* the active calls of str_hash_impl, innermost last
    pc,        \* where the innermost call is: "idle", "next", "match", "check",
               \* "done" (the macro returned), "panicked"
    output,    \* the token stream returned by the macro (<<>> when none)
    error,     \* the panic that ended the invocation: <<[msg, arg]>> or <<>>
    prev,      \* the previous completed invocation: <<[item, hasher, output, error]>>
    input,     \* the last string handed to a hash function
    digest     \* the value it returned: <<[fn, value]>> or <<>>

vars == <<item, hasher, stack, pc, output, error, prev, input, digest>>

\* the panic messages of lib.rs after their common head (written without
\* the backticks around {}); {} is replaced by the argument
MsgNone == "none were provided"
MsgShort == "{} was provided"
MsgStart == "{} does not start with a quote"
MsgEnd == "{} does not end with a quote"
MsgIdent == "ident {} was provided"
MsgPunct == "punct {} was provided"
MsgMultiple == "multiple were provided"
\* the panics of str indexing (&string[begin..end]) off a character
\* boundary, at begin and at end: index, character, its byte range, the
\* string as displayed, the ellipsis
MsgSliceStart ==
    "start byte index {} is not a char boundary; it is inside {} (bytes {}..{}) of {}{}"
MsgSliceEnd ==
    "end byte index {} is not a char boundary; it is inside {} (bytes {}..{}) of {}{}"

\* no assertion failed, no panic
Valid == <<>>

\* a panic: the message, the string it displays, and for the panic of str
\* indexing the place (<<index, character, first byte, byte after>>) and
\* the ellipsis that follows a string not displayed whole
PanicAt(msg, arg, at, ellipsis) ==
    <<[msg |-> msg, arg |-> arg, at |-> at, ellipsis |-> ellipsis]>>

\* the panic of assert!, expect and panic! with the message and its argument
Panic(msg, arg) == PanicAt(msg, arg, <<>>, <<>>)

\* str::is_char_boundary(i), i counted from 0
is_char_boundary(string, i) ==
    \/ i = 0
    \/ i = Len(string)
    \/ /\ i < Len(string)
       /\ (string[i + 1] < 128 \/ string[i + 1] >= 192)

\* str::floor_char_boundary(i): the closest boundary at or below i
RECURSIVE floor_char_boundary(_, _)
floor_char_boundary(string, i) ==
    IF i >= Len(string) THEN Len(string)
    ELSE IF is_char_boundary(string, i) THEN i
    ELSE floor_char_boundary(string, i - 1)

\* char::len_utf8 of the character that starts with the byte b
len_utf8(b) == IF b < 128 THEN 1 ELSE IF b < 224 THEN 2 ELSE IF b < 240 THEN 3 ELSE 4

\* "[...]"
Ellipsis == <<91, 46, 46, 46, 93>>

\* the panic of &string[begin..end] when begin or end, both within the
\* string and in order, is not a character boundary: the string is
\* displayed up to MAX_DISPLAY_LENGTH bytes, cut at a boundary
slice_error_fail(string, begin, end) ==
    LET trunc_len == floor_char_boundary(string, MAX_DISPLAY_LENGTH)
        s_trunc == SubSeq(string, 1, trunc_len)
        ellipsis == IF trunc_len < Len(string) THEN Ellipsis ELSE <<>>
        atBegin == ~is_char_boundary(string, begin)
        index == IF atBegin THEN begin ELSE end
        char_start == floor_char_boundary(string, index)
        char_end == char_start + len_utf8(string[char_start + 1])
        ch == SubSeq(string, char_start + 1, char_end)
    IN  PanicAt(IF atBegin THEN MsgSliceStart ELSE MsgSliceEnd, s_trunc,
                <<index, ch, char_start, char_end>>, ellipsis)

\* begin..end is a range &string[begin..end] can take
SliceOk(string, begin, end) ==
    is_char_boundary(string, begin) /\ is_char_boundary(string, end)

\* &string[a..b] for boundaries a <= b
Slice(string, a, b) == SubSeq(string, a + 1, b)

\* a call of str_hash_impl: the iterator over its stream, the token bound
\* to `string` (<<>> before iter.next()), and `result` (<<>> while unassigned)
Frame(stream) == [iter |-> stream, string |-> <<>>, result |-> <<>>]

Top == stack[Len(stack)]

SetTop(f) == [stack EXCEPT ![Len(stack)] = f]

Init ==
    /\ item = <<>>
    /\ hasher = "none"
    /\ stack = <<>>
    /\ pc = "idle"
    /\ output = <<>>
    /\ error = <<>>
    /\ prev = <<>>
    /\ input = <<>>
    /\ digest = <<>>

\* the invocation panics: the stack unwinds, nothing is returned
AbortWith(panic) ==
    /\ pc' = "panicked"
    /\ error' = panic
    /\ stack' = <<>>
    /\ UNCHANGED <<item, hasher, output, prev>>

Abort(msg, arg) == AbortWith(Panic(msg, arg))

\* ------------------------------------------------------------------------
\* The macro invocations.  The compiler invokes a macro once per use; the
\* first invocation gets any stream of at most MaxTokens tokens, the second
\* is of the same macro and gets the first stream wrapped in a group or
\* with one more token.
\* ------------------------------------------------------------------------
Finished == pc \in {"done", "panicked"}

NextItems ==
    IF pc = "idle" THEN Streams(MaxTokens)
    ELSE IF prev = <<>> /\ TokenCount(item) < MaxTokens
    THEN {<<Group(d, item)>> : d \in Delimiters}
         \cup {Append(item, t) : t \in RestTokens}
    ELSE {}

\* the call str_hash_impl(item, hash) of an entry point
Call(it) ==
    /\ item' = it
    /\ stack' = <<Frame(it)>>
    /\ pc' = "next"
    /\ output' = <<>>
    /\ error' = <<>>
    /\ prev' = IF pc = "idle" THEN <<>>
               ELSE <<[item |-> item, hasher |-> hasher,
                       output |-> output, error |-> error]>>
    /\ input' = <<>>
    /\ digest' = <<>>

\* lib.rs 95-97
str_hash_default ==
    /\ pc = "idle" \/ (Finished /\ hasher = "default")
    /\ hasher' = "default"
    /\ \E it \in NextItems : Call(it)

\* lib.rs 101-103
str_hash_fnv1a ==
    /\ pc = "idle" \/ (Finished /\ hasher = "fnv1a")
    /\ hasher' = "fnv1a"
    /\ \E it \in NextItems : Call(it)

\* ------------------------------------------------------------------------
\* str_hash_impl (lib.rs 48-91), one action per step.
\* ------------------------------------------------------------------------
\* the number of tokens is checked before the first token is looked at
IterNextCountFirst ==
    /\ pc = "next"
    /\ IF Top.iter = <<>>
       THEN /\ Abort(MsgNone, <<>>)
            /\ UNCHANGED <<input, digest>>
       ELSE IF Len(Top.iter) > 1
       THEN /\ Abort(MsgMultiple, <<>>)
            /\ UNCHANGED <<input, digest>>
       ELSE /\ stack' = SetTop([Top EXCEPT !.string = <<Head(Top.iter)>>,
                                            !.iter = Tail(Top.iter)])
            /\ pc' = "match"
            /\ UNCHANGED <<item, hasher, output, error, prev, input, digest>>

\* line 51: iter.next().expect(..)
IterNext ==
    /\ pc = "next"
    /\ IF Top.iter = <<>>
       THEN /\ Abort(MsgNone, <<>>)
            /\ UNCHANGED <<input, digest>>
       ELSE /\ stack' = SetTop([Top EXCEPT !.string = <<Head(Top.iter)>>,
                                            !.iter = Tail(Top.iter)])
            /\ pc' = "match"
            /\ UNCHANGED <<item, hasher, output, error, prev, input, digest>>

\* the string does not have MIN_LEN - 1 bytes: "" passes
MinLenTwo == 3 - 1

\* line 59: the shortest literal text accepted
MinLen == 3

\* lines 59-65: the three assertions on the text of the literal, in order,
\* with the two one-byte slices they take; the panic of the first failure,
\* or Valid
LiteralCheck(string) ==
    LET len == Len(string)
    IN  IF ~(len >= MinLen) THEN Panic(MsgShort, string)
        ELSE IF ~SliceOk(string, 0, 1) THEN slice_error_fail(string, 0, 1)
        ELSE IF ~(Slice(string, 0, 1) = <<Quote>>) THEN Panic(MsgStart, string)
        ELSE IF ~SliceOk(string, len - 1, len)
        THEN slice_error_fail(string, len - 1, len)
        ELSE IF ~(Slice(string, len - 1, len) = <<Quote>>) THEN Panic(MsgEnd, string)
        ELSE Valid

\* lines 56-73: the literal arm
MatchLiteral ==
    /\ pc = "match"
    /\ Top.string[1].tt = "Literal"
    /\ LET string == to_string(Top.string[1])
           check == LiteralCheck(string)
       IN  IF check # Valid
           THEN AbortWith(check) /\ UNCHANGED <<input, digest>>
           ELSE LET trimmed == Slice(string, 1, Len(string) - 1)
                    value == Hash(hasher, trimmed)
                IN  /\ input' = trimmed
                    /\ digest' = <<[fn |-> hasher, value |-> value]>>
                    /\ stack' = SetTop([Top EXCEPT !.result = <<to_literal(value)>>])
                    /\ pc' = "check"
                    /\ UNCHANGED <<item, hasher, output, error, prev>>

\* a group is unwrapped only if it is in parentheses
MatchGroupParenOnly ==
    /\ pc = "match"
    /\ Top.string[1].tt = "Group"
    /\ IF Top.string[1].delimiter = "Parenthesis"
       THEN /\ stack' = Append(stack, Frame(Top.string[1].stream))
            /\ pc' = "next"
            /\ UNCHANGED <<item, hasher, output, error, prev, input, digest>>
       ELSE /\ Abort(MsgPunct, <<>>)
            /\ UNCHANGED <<input, digest>>

\* a group is unwrapped only on the outermost level
MatchGroupOneLevel ==
    /\ pc = "match"
    /\ Top.string[1].tt = "Group"
    /\ IF Len(stack) = 1
       THEN /\ stack' = Append(stack, Frame(Top.string[1].stream))
            /\ pc' = "next"
            /\ UNCHANGED <<item, hasher, output, error, prev, input, digest>>
       ELSE /\ Abort(MsgPunct, <<>>)
            /\ UNCHANGED <<input, digest>>

\* lines 75-77: the group arm calls str_hash_impl on the group's stream
MatchGroup ==
    /\ pc = "match"
    /\ Top.string[1].tt = "Group"
    /\ stack' = Append(stack, Frame(Top.string[1].stream))
    /\ pc' = "next"
    /\ UNCHANGED <<item, hasher, output, error, prev, input, digest>>

\* the name of an identifier is hashed like the content of a literal
MatchIdentHashed ==
    /\ pc = "match"
    /\ Top.string[1].tt = "Ident"
    /\ LET value == Hash(hasher, Top.string[1].sym)
       IN  /\ input' = Top.string[1].sym
           /\ digest' = <<[fn |-> hasher, value |-> value]>>
           /\ stack' = SetTop([Top EXCEPT !.result = <<to_literal(value)>>])
           /\ pc' = "check"
           /\ UNCHANGED <<item, hasher, output, error, prev>>

\* lines 79-81
MatchIdent ==
    /\ pc = "match"
    /\ Top.string[1].tt = "Ident"
    /\ Abort(MsgIdent, Top.string[1].sym)
    /\ UNCHANGED <<input, digest>>

\* lines 83-85
MatchPunct ==
    /\ pc = "match"
    /\ Top.string[1].tt = "Punct"
    /\ Abort(MsgPunct, <<Top.string[1].ch>>)
    /\ UNCHANGED <<input, digest>>

\* the assertion of line 88 left out: the call returns `result`
AssertNoMoreSkipped ==
    /\ pc = "check"
    /\ IF FALSE
       THEN /\ Abort(MsgMultiple, <<>>)
            /\ UNCHANGED <<input, digest>>
       ELSE /\ IF Len(stack) = 1
               THEN /\ output' = Top.result
                    /\ pc' = "done"
                    /\ stack' = <<>>
               ELSE /\ stack' = [i \in 1..(Len(stack) - 1) |->
                                    IF i = Len(stack) - 1
                                    THEN [stack[i] EXCEPT !.result = Top.result]
                                    ELSE stack[i]]
                    /\ pc' = "check"
                    /\ output' = output
            /\ UNCHANGED <<item, hasher, error, prev, input, digest>>

\* lines 88-90: assert!(iter.next().is_none(), ..); result
AssertNoMore ==
    /\ pc = "check"
    /\ IF Top.iter # <<>>
       THEN /\ Abort(MsgMultiple, <<>>)
            /\ UNCHANGED <<input, digest>>
       ELSE /\ IF Len(stack) = 1
               THEN /\ output' = Top.result
                    /\ pc' = "done"
                    /\ stack' = <<>>
               ELSE /\ stack' = [i \in 1..(Len(stack) - 1) |->
                                    IF i = Len(stack) - 1
                                    THEN [stack[i] EXCEPT !.result = Top.result]
                                    ELSE stack[i]]
                    /\ pc' = "check"
                    /\ output' = output
            /\ UNCHANGED <<item, hasher, error, prev, input, digest>>

\* the steps of one invocation
Step ==
    \/ IterNext
    \/ MatchLiteral
    \/ MatchGroup
    \/ MatchIdent
    \/ MatchPunct
    \/ AssertNoMore

Next ==
    \/ str_hash_default
    \/ str_hash_fnv1a
    \/ Step

Spec == Init /\ [][Next]_vars

\* ------------------------------------------------------------------------
\* The hash functions on their own: one call, on any string of at most
\* MaxLen characters.
\* ------------------------------------------------------------------------
\* a call of string_hash_fnv1a (lib.rs 35-46)
CallFnv1a ==
    /\ pc = "idle" /\ digest = <<>>
    /\ \E s \in Strings(MaxLen) :
        /\ input' = s
        /\ digest' = <<[fn |-> "fnv1a", value |-> string_hash_fnv1a(s)]>>
    /\ UNCHANGED <<item, hasher, stack, pc, output, error, prev>>

\* a call of string_hash_default (lib.rs 28-32)
CallDefault ==
    /\ pc = "idle" /\ digest = <<>>
    /\ \E s \in Strings(MaxLen) :
        /\ input' = s
        /\ digest' = <<[fn |-> "default", value |-> string_hash_default(s)]>>
    /\ UNCHANGED <<item, hasher, stack, pc, output, error, prev>>

NextHash ==
    \/ CallFnv1a
    \/ CallDefault

SpecHash == Init /\ [][NextHash]_vars

\* ------------------------------------------------------------------------
\* Reference FNV-1a, computed on bit vectors (bit 0 first) from the
\* constants as the specification writes them, in hexadecimal.
\* ------------------------------------------------------------------------
\* bit j (from 0) of a number below 2^n
BitOf(v, j) == (v \div Pow2(j)) % 2

\* the 4n bits of n hexadecimal digits, most significant digit first
HexBits(hex) ==
    [j \in 1..(4 * Len(hex)) |->
        BitOf(hex[Len(hex) - ((j - 1) \div 4)], (j - 1) % 4)] \o <<>>

\* the bits of a word of limbs
WordBits(x) ==
    [j \in 1..(LimbBits * Len(x)) |->
        BitOf(x[((j - 1) \div LimbBits) + 1], (j - 1) % LimbBits)] \o <<>>

\* the 32 bits of a byte
ByteBits(b) == [j \in 1..32 |-> IF j <= 8 THEN BitOf(b, j - 1) ELSE 0] \o <<>>

RefXor(a, b) == [j \in 1..Len(a) |-> (a[j] + b[j]) % 2] \o <<>>

RefShl(a, n) == [j \in 1..Len(a) |-> IF j > n THEN a[j - n] ELSE 0] \o <<>>

RECURSIVE RefCarry(_, _, _)
RefCarry(a, b, j) ==
    IF j = 1 THEN 0 ELSE (a[j - 1] + b[j - 1] + RefCarry(a, b, j - 1)) \div 2

\* a + b mod 2^32
RefAdd(a, b) ==
    [j \in 1..Len(a) |-> (a[j] + b[j] + RefCarry(a, b, j)) % 2] \o <<>>

\* a * p mod 2^32 by shift and add over the bits 1..n of p
RECURSIVE RefMul(_, _, _)
RefMul(a, p, n) ==
    IF n = 0 THEN [j \in 1..Len(a) |-> 0] \o <<>>
    ELSE IF p[n] = 1 THEN RefAdd(RefMul(a, p, n - 1), RefShl(a, n - 1))
    ELSE RefMul(a, p, n - 1)

\* SEED = 0x811C9DC5, PRIME = 0x01000193
RefSeed == HexBits(<<8, 1, 1, 12, 9, 13, 12, 5>>)
RefPrime == HexBits(<<0, 1, 0, 0, 0, 1, 9, 3>>)

\* the state after the first n bytes (a state is 32 bits)
RECURSIVE RefFnv(_, _)
RefFnv(bytes, n) ==
    IF n = 0 THEN RefSeed
    ELSE LET x == RefXor(RefFnv(bytes, n - 1), ByteBits(bytes[n]))
         IN  IF Len(x) = 32 THEN RefMul(x, RefPrime, 32) ELSE <<>>

\* C1: every call of string_hash_fnv1a returns the reference FNV-1a fold of
\* the bytes of its argument (SEED, then per byte xor and multiplication by
\* PRIME mod 2^32); the empty string gives SEED.
C1_FnvIsReferenceFold ==
    (digest # <<>> /\ digest[1].fn = "fnv1a") =>
        /\ WordBits(digest[1].value) = RefFnv(input, Len(input))
        /\ (input = <<>> => WordBits(digest[1].value) = RefSeed)

\* a call on a string of several bytes, one of them above 0x7F
C1_Witness ==
    /\ digest # <<>> /\ digest[1].fn = "fnv1a"
    /\ Len(input) >= 4
    /\ \E i \in 1..Len(input) : input[i] >= 128

\* C8: string_hash_fnv1a("a") is 0xE40C292C, which is
\* ((0x811C9DC5 xor 0x61) * 0x01000193) mod 2^32.
C8_FnvOfA ==
    (digest # <<>> /\ digest[1].fn = "fnv1a" /\ input = <<97>>) =>
        /\ WordBits(digest[1].value) = HexBits(<<14, 4, 0, 12, 2, 9, 2, 12>>)
        /\ HexBits(<<14, 4, 0, 12, 2, 9, 2, 12>>)
             = RefMul(RefXor(RefSeed, HexBits(<<0, 0, 0, 0, 0, 0, 6, 1>>)), RefPrime, 32)

\* the call on "a"
C8_Witness == digest # <<>> /\ digest[1].fn = "fnv1a" /\ input = <<97>>

\* ------------------------------------------------------------------------
\* Vocabulary of the claims about the macros.
\* ------------------------------------------------------------------------
\* the error taxonomy of the specification: a panic is named after the check
\* that raised it (the panic of str indexing is raised within the checks of
\* the literal)
ErrorKind(e) ==
    CASE e.msg = MsgNone -> "MissingArgument"
      [] e.msg = MsgMultiple -> "TooManyArguments"
      [] e.msg \in {MsgShort, MsgStart, MsgEnd, MsgSliceStart, MsgSliceEnd}
            -> "InvalidLiteralFormat"
      [] e.msg \in {MsgIdent, MsgPunct} -> "UnexpectedTokenKind"

Failed(kind) == pc = "panicked" /\ error # <<>> /\ ErrorKind(error[1]) = kind /\ output = <<>>

\* the first token of the stream that is not a group, looking into the
\* first token of each group: <<token>>, or <<>> when an empty stream is met
RECURSIVE FirstLeaf(_)
FirstLeaf(stream) ==
    IF stream = <<>> THEN <<>>
    ELSE IF Head(stream).tt = "Group" THEN FirstLeaf(Head(stream).stream)
    ELSE <<Head(stream)>>

\* the stream starts with a literal, possibly inside groups
LeafIsLiteral == FirstLeaf(item) # <<>> /\ FirstLeaf(item)[1].tt = "Literal"

\* the raw text of that literal
LeafText == to_string(FirstLeaf(item)[1])

\* the literal arm has run on it: it was hashed or the invocation panicked
LiteralArmRan == pc # "idle" /\ LeafIsLiteral /\ (digest # <<>> \/ pc = "panicked")

\* t is at least n long and starts and ends with a double quote
Quoted(t, n) == Len(t) >= n /\ t[1] = Quote /\ t[Len(t)] = Quote

\* t without its first and last character
Dequote(t) == [i \in 1..(Len(t) - 2) |-> t[i + 1]]

\* "" as raw text
EmptyLiteralText == <<Quote, Quote>>

\* a token that is a valid input by itself: a quoted literal of three or
\* more characters, or a group holding exactly one valid token
RECURSIVE ValidToken(_)
ValidToken(t) ==
    CASE t.tt = "Literal" -> Quoted(to_string(t), 3)
      [] t.tt = "Group" -> Len(t.stream) = 1 /\ ValidToken(t.stream[1])
      [] OTHER -> FALSE

\* a group, inside any number of groups of one token, that holds a valid
\* token and more tokens
RECURSIVE Overfull(_)
Overfull(t) ==
    /\ t.tt = "Group"
    /\ \/ Len(t.stream) > 1 /\ ValidToken(t.stream[1])
       \/ Len(t.stream) = 1 /\ Overfull(t.stream[1])

\* number of groups around the first leaf
RECURSIVE NestDepth(_)
NestDepth(stream) ==
    IF stream = <<>> \/ Head(stream).tt # "Group" THEN 0
    ELSE 1 + NestDepth(Head(stream).stream)

\* the invocation is under way
Running == pc \in {"next", "match", "check"}

\* the guard of one of the steps holds: the innermost call has a token to
\* take or to report missing, a token of one of the four kinds to match, or
\* a result to return
CanStep ==
    /\ stack # <<>>
    /\ pc = "match" =>
          /\ Top.string # <<>>
          /\ Top.string[1].tt \in {"Literal", "Group", "Ident", "Punct"}
    /\ pc = "check" => Top.result # <<>>

\* number of calls of str_hash_impl that a call on the stream leads to
CallsFrom(stream) == 1 + NestDepth(stream)

\* an upper bound of the number of steps the invocation still takes: three
\* per call to come, and what is left of the calls under way
StepsLeft ==
    CASE pc = "next" -> 3 * CallsFrom(Top.iter) + (Len(stack) - 1)
      [] pc = "match" ->
            2 + (IF Top.string[1].tt = "Group"
                 THEN 3 * CallsFrom(Top.string[1].stream) ELSE 0)
              + (Len(stack) - 1)
      [] pc = "check" -> Len(stack)
      [] OTHER -> 0

\* the value of a string of decimal digits, as a 64-bit word
RECURSIVE ParseDec(_, _)
ParseDec(digits, n) ==
    IF n = 0 THEN <<0, 0, 0, 0>>
    ELSE wrapping_add(MulSmall(ParseDec(digits, n - 1), 10),
                      ZeroExtend(digits[n] - Digit0, 4))

\* a word widened to 64 bits
Widen(x) == [i \in 1..4 |-> IF i <= Len(x) THEN x[i] ELSE 0]

\* ------------------------------------------------------------------------
\* Claims.
\* ------------------------------------------------------------------------
\* C2 as stated: every literal text of length >= 2 with a double quote first
\* and last is accepted and its content hashed, the empty literal "" with
\* empty content.
C2_EmptyLiteralAccepted ==
    (LiteralArmRan /\ Quoted(LeafText, 2)) =>
        (digest # <<>> /\ input = Dequote(LeafText))

\* C2 (amended): the empty literal "" (length 2) is rejected as too short,
\* with an InvalidLiteralFormat error that echoes it, and nothing is hashed;
\* every literal text of length >= 3 with a double quote first and last is
\* accepted and its content hashed.
C2_EmptyLiteralRejected ==
    LiteralArmRan =>
        /\ LeafText = EmptyLiteralText =>
              /\ Failed("InvalidLiteralFormat")
              /\ error = Panic(MsgShort, EmptyLiteralText)
              /\ digest = <<>>
        /\ Quoted(LeafText, 3) => (digest # <<>> /\ input = Dequote(LeafText))

\* "" was given and the invocation is over
C2_Witness == LiteralArmRan /\ LeafText = EmptyLiteralText /\ Finished

\* the message of the panic displays the text t whole
Echoes(e, t) == e.arg = t /\ e.ellipsis = <<>>

\* C3: a literal with raw text t passes validation iff len(t) >= 3 and t
\* starts and ends with a double quote; then the hasher gets t without its
\* first and last character (len(t) - 2 long); otherwise the invocation fails
\* with an InvalidLiteralFormat error whose message echoes t.
C3_LiteralValidation ==
    LiteralArmRan =>
        IF Len(LeafText) >= 3 /\ LeafText[1] = Quote /\ LeafText[Len(LeafText)] = Quote
        THEN /\ digest # <<>>
             /\ input = Dequote(LeafText)
             /\ Len(input) = Len(LeafText) - 2
        ELSE /\ digest = <<>>
             /\ Failed("InvalidLiteralFormat")
             /\ Echoes(error[1], LeafText)

\* C4 as stated: no token fails with MissingArgument, and every stream of
\* more than one token fails with TooManyArguments.
C4_MoreThanOneIsTooMany ==
    Finished =>
        /\ Len(item) = 0 => Failed("MissingArgument")
        /\ Len(item) > 1 => Failed("TooManyArguments")

\* C4 (amended): no token fails with MissingArgument; a stream of more than
\* one token always fails, with TooManyArguments when its first token is a
\* valid input by itself (as for two valid string literals) and with the
\* error of the first token alone otherwise.
C4_ExactlyOneToken ==
    Finished =>
        /\ Len(item) = 0 => Failed("MissingArgument")
        /\ Len(item) > 1 =>
              /\ pc = "panicked" /\ output = <<>>
              /\ ValidToken(item[1]) => Failed("TooManyArguments")
              /\ (~ValidToken(item[1]) /\ prev # <<>> /\ prev[1].item = <<item[1]>>) =>
                    (prev[1].error # <<>> /\ error = prev[1].error)

\* two valid string literals were given
C4_Witness ==
    /\ Finished /\ Len(item) = 2
    /\ item[1].tt = "Literal" /\ item[2].tt = "Literal" /\ ValidToken(item[1])
    /\ Failed("TooManyArguments")

\* C5: when the token found where the literal is required is an identifier
\* or a punctuation token, the invocation fails with UnexpectedTokenKind and
\* returns nothing; whatever is hashed is the content of a literal.
C5_NoIdentOrPunct ==
    /\ (Finished /\ FirstLeaf(item) # <<>> /\ FirstLeaf(item)[1].tt \in {"Ident", "Punct"}) =>
          /\ Failed("UnexpectedTokenKind")
          /\ digest = <<>>
    /\ (pc # "idle" /\ digest # <<>>) => (LeafIsLiteral /\ input = Dequote(LeafText))

\* an identifier inside a group was rejected
C5_Witness ==
    /\ pc = "panicked" /\ NestDepth(item) >= 1
    /\ FirstLeaf(item) # <<>> /\ FirstLeaf(item)[1].tt = "Ident"

\* C6: for a literal L and either macro, the invocation on one group (of
\* any delimiter) that holds only L ends like the invocation on L alone:
\* the same output token, or the same error.
C6_GroupOfLiteral ==
    (Finished /\ prev # <<>> /\ prev[1].hasher = hasher
       /\ Len(prev[1].item) = 1 /\ prev[1].item[1].tt = "Literal"
       /\ Len(item) = 1 /\ item[1].tt = "Group" /\ item[1].stream = prev[1].item) =>
        /\ output = prev[1].output
        /\ error = prev[1].error

\* a valid literal in braces gave the token of the literal alone
C6_Witness ==
    /\ pc = "done" /\ prev # <<>> /\ prev[1].output # <<>>
    /\ Len(prev[1].item) = 1 /\ prev[1].item[1].tt = "Literal"
    /\ item = <<Group("Brace", prev[1].item)>>

\* C7: a successful invocation returns exactly one token, an unsuffixed
\* integer literal whose value is the macro's hash function (FNV-1a, 32 bits,
\* for str_hash_fnv1a; the default hasher, 64 bits, for str_hash_default) of
\* the dequoted text of the one input literal; so the token depends on the
\* macro and the literal's text only.
C7_OutputIsHash ==
    pc = "done" =>
        /\ LeafIsLiteral
        /\ Len(output) = 1
        /\ output[1].tt = "Literal" /\ output[1].kind = "Integer"
        /\ output[1].suffix = <<>>
        /\ Len(output[1].symbol) >= 1
        /\ \A i \in 1..Len(output[1].symbol) :
              output[1].symbol[i] \in Digit0..(Digit0 + 9)
        /\ to_string(output[1]) = output[1].symbol
        /\ IF hasher = "fnv1a"
           THEN /\ ParseDec(output[1].symbol, Len(output[1].symbol))
                     = Widen(string_hash_fnv1a(Dequote(LeafText)))
                /\ WordBits(string_hash_fnv1a(Dequote(LeafText)))
                     = RefFnv(Dequote(LeafText), Len(LeafText) - 2)
           ELSE ParseDec(output[1].symbol, Len(output[1].symbol))
                     = string_hash_default(Dequote(LeafText))

\* str_hash_default returned the hash of a literal with a two-byte character
C7_Witness ==
    /\ pc = "done" /\ hasher = "default" /\ Len(output) = 1
    /\ LeafIsLiteral /\ Len(LeafText) = 4

\* C9: in one call the checks come in a fixed order: the first token is
\* taken (or found missing), then matched, and only after it gave a result
\* is the rest of the stream checked.  So TooManyArguments is raised only
\* after the first token was processed with success, and a stream whose
\* first tokens fail ends with the same error whatever token is added.
C9_CheckOrder ==
    /\ [][/\ pc' = "match" => pc = "next"
          /\ (pc' = "check" /\ pc # "check") => pc = "match"
          /\ (pc' = "panicked" /\ error'[1].msg = MsgNone) => pc = "next"
          /\ (pc' = "panicked" /\ error'[1].msg \notin {MsgNone, MsgMultiple})
                => pc = "match"
          /\ (pc' = "panicked" /\ error'[1].msg = MsgMultiple)
                => (pc = "check" /\ Top.result # <<>> /\ digest # <<>>)]_vars
    /\ [](  (Finished /\ prev # <<>> /\ prev[1].item # <<>>
              /\ Len(item) = Len(prev[1].item) + 1
              /\ SubSeq(item, 1, Len(prev[1].item)) = prev[1].item) =>
            IF prev[1].error # <<>>
            THEN pc = "panicked" /\ error = prev[1].error
            ELSE Failed("TooManyArguments"))

\* an invalid literal followed by another token gave the literal's error
C9_Witness ==
    /\ pc = "panicked" /\ Len(item) = 2 /\ item[1].tt = "Literal"
    /\ prev # <<>> /\ prev[1].item = <<item[1]>>
    /\ ErrorKind(error[1]) = "InvalidLiteralFormat"

\* C10: groups are unwrapped at any depth: a valid literal in n >= 1 nested
\* groups of one token each gives the token of the bare literal; each level
\* takes exactly one token (an empty group at any depth fails with
\* MissingArgument, a group with a valid token and more fails with
\* TooManyArguments); every invocation comes to an end: while it is under
\* way a step is possible, and each step lowers the bound StepsLeft, which
\* starts at three steps per nesting level.
C10_Nesting ==
    /\ [](Finished =>
            /\ (Len(item) = 1 /\ NestDepth(item) >= 1 /\ ValidToken(item[1])) =>
                  /\ pc = "done"
                  /\ output = <<to_literal(Hash(hasher, Dequote(LeafText)))>>
            /\ (prev # <<>> /\ prev[1].output # <<>> /\ Len(item) = 1
                  /\ item[1].tt = "Group" /\ item[1].stream = prev[1].item) =>
                  output = prev[1].output
            /\ (NestDepth(item) >= 1 /\ FirstLeaf(item) = <<>>) =>
                  Failed("MissingArgument")
            /\ (Len(item) = 1 /\ Overfull(item[1])) => Failed("TooManyArguments"))
    /\ [](Running =>
            /\ CanStep
            /\ Len(stack) <= 1 + NestDepth(item)
            /\ StepsLeft <= 3 * (1 + NestDepth(item)))
    /\ [][Running => StepsLeft' < StepsLeft]_vars

\* a group of a valid literal and one more token, itself alone inside a
\* group, was rejected
C10_Witness ==
    /\ Failed("TooManyArguments") /\ Len(item) = 1 /\ Overfull(item[1])
    /\ Len(item[1].stream) = 1 /\ Len(item[1].stream[1].stream) = 2

====
